---- MODULE Spec2Model ----
(***************************************************************************)
(* A model of xCrash's signal layer, src/native/common/xcc_signal.c:       *)
(* the crash signal controller (register / unregister / ignore / queue)    *)
(* and the trace signal controller (trace_register / trace_unregister),    *)
(* over the kernel state they act on: the process-wide signal              *)
(* dispositions, the per-thread signal masks and alternate stacks, the     *)
(* pending signals and the handler invocations in flight.                  *)
(*                                                                         *)
(* Every OS primitive the code calls may fail; a failing primitive changes *)
(* nothing.  Which calls fail is an input of each operation.  Fault model: *)
(* at most one operation of a run meets failing primitives (faulted).      *)
(*                                                                         *)
(* Spec is the layer's six operations, called in any order.  SpecRun is    *)
(* the process at run time: the operations with primitives that succeed,   *)
(* the threads changing their own masks, and the kernel sending and        *)
(* delivering signals to the handlers the operations installed.            *)
(***************************************************************************)
EXTENDS Integers, Sequences, FiniteSets, TLC

(***************************************************************************)
(* Bounds of the model.                                                    *)
(***************************************************************************)
\* operations performed in one run
MaxOps == 3
\* operations performed in one run of SpecRun
MaxRunOps == 2
\* signals sent in one run of SpecRun
MaxSends == 2

(***************************************************************************)
(* Signals, flags, statuses.                                               *)
(***************************************************************************)
SIGABRT   == "SIGABRT"
SIGBUS    == "SIGBUS"
SIGFPE    == "SIGFPE"
SIGILL    == "SIGILL"
SIGSEGV   == "SIGSEGV"
SIGTRAP   == "SIGTRAP"
SIGSYS    == "SIGSYS"
SIGSTKFLT == "SIGSTKFLT"
SIGQUIT   == "SIGQUIT"
\* a signal neither controller names: what else sigfillset() puts in a set
SIGUSR1   == "SIGUSR1"

\* the signum column of xcc_signal_crash_info[], in table order
CrashSignals ==
  << SIGABRT, SIGBUS, SIGFPE, SIGILL, SIGSEGV, SIGTRAP, SIGSYS, SIGSTKFLT >>

MonitoredSet == { CrashSignals[i] : i \in 1..Len(CrashSignals) }

\* sigfillset(): every signal
AllSignals == MonitoredSet \cup { SIGQUIT, SIGUSR1 }

SA_RESTART == "SA_RESTART"
SA_SIGINFO == "SA_SIGINFO"
SA_ONSTACK == "SA_ONSTACK"
SIG_DFL    == "SIG_DFL"

\* return values
OK               == "0"
XCC_ERRNO_NOMEM  == "XCC_ERRNO_NOMEM"
XCC_ERRNO_SYS    == "XCC_ERRNO_SYS"
\* what a failing pthread_sigmask() returns: an errno value
SigmaskErrors    == { "EINVAL" }

\* si_code values: sent by tkill(), sent by kill(), raised by the kernel
SI_TKILL    == -6
SI_USER     == 0
SEGV_MAPERR == 1
SiCodes     == { SI_TKILL, SI_USER, SEGV_MAPERR }

\* variant: a kill() (si_code 0) does not count as sent by a user
SI_FROMUSER_Strict(si) == si.si_code < 0

\* SI_FROMUSER(si): the signal comes from a user process
SI_FROMUSER(si) == si.si_code <= 0

Threads  == { "main", "worker" }
\* the thread that sets the crash controller up
Controller == "main"
\* the handlers the callers pass to the crash controller, and to the trace controller
Handlers      == { "h1", "h2" }
TraceHandlers == { "ht" }
\* getpid()
Pid == "pid"

(***************************************************************************)
(* struct sigaction values.                                                *)
(***************************************************************************)
\* static storage, memset(&act, 0, sizeof(act)): SIG_DFL, empty mask, no flag
ZeroAct == [ sa_handler |-> SIG_DFL, sa_mask |-> {}, sa_flags |-> {} ]

\* a disposition some other component installed for signal s before this
\* layer ran; no two signals share one
PresetAct(s) == [ sa_handler |-> "g", sa_mask |-> { s }, sa_flags |-> { SA_SIGINFO } ]

\* variant: sa_mask is left empty
CrashActEmptyMask(handler) ==
  [ sa_handler |-> handler, sa_mask |-> {},
    sa_flags |-> { SA_RESTART, SA_SIGINFO, SA_ONSTACK } ]

\* variant: the handler is not asked to run on the alternate stack
CrashActNoOnstack(handler) ==
  [ sa_handler |-> handler, sa_mask |-> AllSignals,
    sa_flags |-> { SA_RESTART, SA_SIGINFO } ]

\* the act xcc_signal_crash_register() builds
CrashAct(handler) ==
  [ sa_handler |-> handler, sa_mask |-> AllSignals,
    sa_flags |-> { SA_RESTART, SA_SIGINFO, SA_ONSTACK } ]

\* the act xcc_signal_crash_ignore() builds
IgnoreAct == [ sa_handler |-> SIG_DFL, sa_mask |-> {}, sa_flags |-> { SA_RESTART } ]

\* the act xcc_signal_trace_register() builds
TraceAct(handler) ==
  [ sa_handler |-> handler, sa_mask |-> AllSignals,
    sa_flags |-> { SA_RESTART, SA_SIGINFO } ]

VARIABLES
  disposition,             \* kernel: signal -> struct sigaction (process-wide)
  sigmask,                 \* kernel: thread -> set of blocked signals
  altstack,                \* kernel: thread -> installed alternate stack block, 0: none
  heap,                    \* blocks calloc() has returned so far; none is ever freed
  xcc_signal_crash_info,   \* the table of Disposition Records
  xcc_signal_trace_oldset, \* saved mask of the trace controller
  xcc_signal_trace_oldact, \* saved SIGQUIT disposition of the trace controller
  pending,                 \* kernel: queue (a thread, or the process) -> pending signals
  frames,                  \* kernel: thread -> handler invocations in flight, innermost last
  alive,                   \* kernel: the process has not been terminated by a signal
  sent,                    \* history: signal -> times kill() or tgkill() sent it
  merged,                  \* history: signal -> those sends that found it pending already
  ran,                     \* history: signal -> handler invocations started for it
  lastOp,                  \* history: the last operation, its inputs and return value
  prevOp,                  \* history: name and return value of the one before
  pre,                     \* history: the program state when the last operation began
  calls,                   \* history: the OS calls the last operation made, in order
  nops,                    \* history: operations performed
  budget,                  \* the operations the run may perform
  faulted                  \* history: an operation met a failing primitive

progvars == << disposition, sigmask, altstack, heap, xcc_signal_crash_info,
               xcc_signal_trace_oldset, xcc_signal_trace_oldact >>

\* what the kernel keeps about signals on their way, and its history
kernelvars == << pending, frames, alive, sent, merged, ran >>

vars == << disposition, sigmask, altstack, heap, xcc_signal_crash_info,
           xcc_signal_trace_oldset, xcc_signal_trace_oldact,
           pending, frames, alive, sent, merged, ran,
           lastOp, prevOp, pre, calls, nops, budget, faulted >>

\* the program state, as a value
State ==
  [ disposition |-> disposition, sigmask |-> sigmask, altstack |-> altstack,
    heap |-> heap, info |-> xcc_signal_crash_info,
    oldset |-> xcc_signal_trace_oldset, oldact |-> xcc_signal_trace_oldact ]

(***************************************************************************)
(* Initial states.  The table and the trace state are zero-initialised     *)
(* statics; the dispositions and masks are what the process had before     *)
(* this layer ran.                                                         *)
(***************************************************************************)
\* the sets of signals that start with a disposition of their own
PresetChoices == { {}, { SIGSEGV }, MonitoredSet \cup { SIGQUIT } }

\* the masks the threads may start with
MaskChoices == { {}, { SIGQUIT, SIGUSR1 } }

\* the processes the layer starts in: nothing set up, one handler of another
\* component, or every signal handled and SIGQUIT blocked
StartChoices ==
  { << {}, {} >>, << { SIGSEGV }, {} >>,
    << MonitoredSet \cup { SIGQUIT }, { SIGQUIT, SIGUSR1 } >> }

NoOp == [ op |-> "none", t |-> "-", arg |-> "-", in |-> "-", ret |-> "-" ]

\* a signal is sent to one thread or to the process as a whole
Process == "process"
Queues  == Threads \cup { Process }

\* the signals sent in the model: the first and the last entry of the
\* table, and the trace signal
SendSignals == { SIGABRT, SIGSTKFLT, SIGQUIT }

\* no signal is on its way and no handler runs
KernelInit ==
  /\ pending = [ q \in Queues |-> {} ]
  /\ frames = [ t \in Threads |-> << >> ]
  /\ alive = TRUE
  /\ sent = [ s \in SendSignals |-> 0 ]
  /\ merged = [ s \in SendSignals |-> 0 ]
  /\ ran = [ s \in SendSignals |-> 0 ]

\* the statics are zero-initialised; nothing has been called; c: the
\* dispositions and the mask the process starts with
Start(c) ==
  /\ c[1] \in PresetChoices /\ c[2] \in MaskChoices
  /\ disposition = [ s \in AllSignals |-> IF s \in c[1] THEN PresetAct(s) ELSE ZeroAct ]
  /\ sigmask = [ t \in Threads |-> c[2] ]
  /\ altstack = [ t \in Threads |-> 0 ]
  /\ heap = 0
  /\ xcc_signal_crash_info =
       [ i \in 1..Len(CrashSignals) |-> [ signum |-> CrashSignals[i], oldact |-> ZeroAct ] ]
  /\ xcc_signal_trace_oldset = {}
  /\ xcc_signal_trace_oldact = ZeroAct
  /\ lastOp = NoOp
  /\ prevOp = [ op |-> "none", t |-> "-", ret |-> "-" ]
  /\ pre = << >>
  /\ calls = << >>
  /\ nops = 0

ProgramInit == \E c \in StartChoices : Start(c)

Init ==
  /\ KernelInit
  /\ ProgramInit
  /\ budget = MaxOps
  /\ faulted = FALSE

(***************************************************************************)
(* History bookkeeping shared by the operations.                           *)
(***************************************************************************)
\* an operation may start; fault: it meets a failing primitive
May(fault) ==
  /\ alive
  /\ nops < budget
  /\ fault => ~faulted

Record(op, t, arg, in, ret, log, fault) ==
  /\ UNCHANGED << frames, alive, sent, merged, ran >>
  /\ lastOp' = [ op |-> op, t |-> t, arg |-> arg, in |-> in, ret |-> ret ]
  /\ prevOp' = [ op |-> lastOp.op, t |-> lastOp.t, ret |-> lastOp.ret ]
  /\ pre' = State
  /\ calls' = log
  /\ nops' = nops + 1
  /\ UNCHANGED budget
  /\ faulted' = (faulted \/ fault)

\* one OS call: the function, the signal it names, its argument, whether it succeeded
Call(fn, sig, arg, ok) == [ fn |-> fn, sig |-> sig, arg |-> arg, ok |-> ok ]

\* the patterns of failing sigaction() calls of a teardown loop, by table entry:
\* none, the first, the last, two inner ones, all
FailChoices == { {}, { 1 }, { Len(CrashSignals) }, { 3, 6 }, 1..Len(CrashSignals) }

(***************************************************************************)
(* xcc_signal_crash_register                                               *)
(***************************************************************************)
\* variant: the result of sigaltstack() is not checked
AltStackStatusUnchecked(callocOK, altOK) ==
  IF ~callocOK THEN XCC_ERRNO_NOMEM ELSE OK

\* the status of the alternate-stack part: calloc() and sigaltstack() are
\* both checked, and each failure returns at once
AltStackStatus(callocOK, altOK) ==
  IF ~callocOK THEN XCC_ERRNO_NOMEM
  ELSE IF ~altOK THEN XCC_ERRNO_SYS
  ELSE OK

\* variant: sigaction() is given no place to save the old disposition
RECURSIVE RegisterLoopNoSave(_, _, _, _, _, _)
RegisterLoopNoSave(i, disp, info, act, failAt, log) ==
  IF i > Len(info)
  THEN [ ret |-> OK, disp |-> disp, info |-> info, log |-> log ]
  ELSE IF i = failAt
  THEN [ ret |-> XCC_ERRNO_SYS, disp |-> disp, info |-> info,
         log |-> Append(log, Call("sigaction", info[i].signum, act.sa_handler, FALSE)) ]
  ELSE RegisterLoopNoSave(i + 1, [ disp EXCEPT ![info[i].signum] = act ], info,
                          act, failAt,
                          Append(log, Call("sigaction", info[i].signum,
                                           act.sa_handler, TRUE)))

\* variant: a failing sigaction() does not end the loop
RECURSIVE RegisterLoopContinue(_, _, _, _, _, _)
RegisterLoopContinue(i, disp, info, act, failAt, log) ==
  IF i > Len(info)
  THEN [ ret |-> IF failAt = 0 THEN OK ELSE XCC_ERRNO_SYS,
         disp |-> disp, info |-> info, log |-> log ]
  ELSE IF i = failAt
  THEN RegisterLoopContinue(i + 1, disp, info, act, failAt,
                            Append(log, Call("sigaction", info[i].signum,
                                             act.sa_handler, FALSE)))
  ELSE RegisterLoopContinue(i + 1,
                            [ disp EXCEPT ![info[i].signum] = act ],
                            [ info EXCEPT ![i].oldact = disp[info[i].signum] ],
                            act, failAt,
                            Append(log, Call("sigaction", info[i].signum,
                                             act.sa_handler, TRUE)))

\* variant: a record that holds a saved disposition already is not overwritten
RECURSIVE RegisterLoopKeepFirst(_, _, _, _, _, _)
RegisterLoopKeepFirst(i, disp, info, act, failAt, log) ==
  IF i > Len(info)
  THEN [ ret |-> OK, disp |-> disp, info |-> info, log |-> log ]
  ELSE IF i = failAt
  THEN [ ret |-> XCC_ERRNO_SYS, disp |-> disp, info |-> info,
         log |-> Append(log, Call("sigaction", info[i].signum, act.sa_handler, FALSE)) ]
  ELSE RegisterLoopKeepFirst(i + 1,
                             [ disp EXCEPT ![info[i].signum] = act ],
                             IF info[i].oldact = ZeroAct
                             THEN [ info EXCEPT ![i].oldact = disp[info[i].signum] ]
                             ELSE info,
                             act, failAt,
                             Append(log, Call("sigaction", info[i].signum,
                                              act.sa_handler, TRUE)))

\* variant: the loop stops one entry short of the table's end
RECURSIVE RegisterLoopShort(_, _, _, _, _, _)
RegisterLoopShort(i, disp, info, act, failAt, log) ==
  IF i > Len(info) - 1
  THEN [ ret |-> OK, disp |-> disp, info |-> info, log |-> log ]
  ELSE IF i = failAt
  THEN [ ret |-> XCC_ERRNO_SYS, disp |-> disp, info |-> info,
         log |-> Append(log, Call("sigaction", info[i].signum, act.sa_handler, FALSE)) ]
  ELSE RegisterLoopShort(i + 1,
                         [ disp EXCEPT ![info[i].signum] = act ],
                         [ info EXCEPT ![i].oldact = disp[info[i].signum] ],
                         act, failAt,
                         Append(log, Call("sigaction", info[i].signum,
                                          act.sa_handler, TRUE)))

\* the installation loop from entry i on; failAt is the entry whose
\* sigaction() fails (0: none does)
RECURSIVE RegisterLoop(_, _, _, _, _, _)
RegisterLoop(i, disp, info, act, failAt, log) ==
  IF i > Len(info)
  THEN [ ret |-> OK, disp |-> disp, info |-> info, log |-> log ]
  ELSE IF i = failAt
  THEN [ ret |-> XCC_ERRNO_SYS, disp |-> disp, info |-> info,
         log |-> Append(log, Call("sigaction", info[i].signum, act.sa_handler, FALSE)) ]
  ELSE RegisterLoop(i + 1,
                    [ disp EXCEPT ![info[i].signum] = act ],
                    [ info EXCEPT ![i].oldact = disp[info[i].signum] ],
                    act, failAt,
                    Append(log, Call("sigaction", info[i].signum, act.sa_handler, TRUE)))

xcc_signal_crash_register(t, handler, callocOK, altOK, failAt) ==
  LET in == [ callocOK |-> callocOK, altOK |-> altOK, failAt |-> failAt ]
      log1 == << Call("calloc", "-", "-", callocOK) >>
      log2 == Append(log1, Call("sigaltstack", "-", "-", altOK))
      early == AltStackStatus(callocOK, altOK)
      loop == RegisterLoop(1, disposition, xcc_signal_crash_info,
                           CrashAct(handler), failAt, log2)
  IN
  /\ May(~callocOK \/ ~altOK \/ failAt # 0)
  /\ UNCHANGED pending
  /\ IF early # OK
     THEN /\ heap' = IF callocOK THEN heap + 1 ELSE heap
          /\ Record("crash_register", t, handler, in, early,
                    IF callocOK THEN log2 ELSE log1, TRUE)
          /\ UNCHANGED << disposition, sigmask, altstack, xcc_signal_crash_info,
                          xcc_signal_trace_oldset, xcc_signal_trace_oldact >>
     ELSE /\ heap' = heap + 1
          /\ altstack' = [ altstack EXCEPT ![t] = IF altOK THEN heap + 1 ELSE @ ]
          /\ disposition' = loop.disp
          /\ xcc_signal_crash_info' = loop.info
          /\ Record("crash_register", t, handler, in, loop.ret, loop.log, failAt # 0)
          /\ UNCHANGED << sigmask, xcc_signal_trace_oldset, xcc_signal_trace_oldact >>

CrashRegister ==
  \E handler \in Handlers :
    \/ xcc_signal_crash_register(Controller, handler, FALSE, TRUE, 0)
    \/ xcc_signal_crash_register(Controller, handler, TRUE, FALSE, 0)
    \/ \E failAt \in 0..Len(CrashSignals) :
         xcc_signal_crash_register(Controller, handler, TRUE, TRUE, failAt)

(***************************************************************************)
(* xcc_signal_crash_unregister                                             *)
(***************************************************************************)
\* variant: the first failing sigaction() ends the loop
RECURSIVE UnregisterLoopBreak(_, _, _, _, _, _)
UnregisterLoopBreak(i, disp, info, F, r, log) ==
  IF i > Len(info)
  THEN [ ret |-> r, disp |-> disp, log |-> log ]
  ELSE IF i \in F
  THEN [ ret |-> XCC_ERRNO_SYS, disp |-> disp,
         log |-> Append(log, Call("sigaction", info[i].signum,
                                  info[i].oldact.sa_handler, FALSE)) ]
  ELSE UnregisterLoopBreak(i + 1, [ disp EXCEPT ![info[i].signum] = info[i].oldact ],
                           info, F, r,
                           Append(log, Call("sigaction", info[i].signum,
                                            info[i].oldact.sa_handler, TRUE)))

\* variant: an entry whose record was never filled is left alone
RECURSIVE UnregisterLoopSkipEmpty(_, _, _, _, _, _)
UnregisterLoopSkipEmpty(i, disp, info, F, r, log) ==
  IF i > Len(info)
  THEN [ ret |-> r, disp |-> disp, log |-> log ]
  ELSE IF info[i].oldact = ZeroAct
  THEN UnregisterLoopSkipEmpty(i + 1, disp, info, F, r, log)
  ELSE IF i \in F
  THEN UnregisterLoopSkipEmpty(i + 1, disp, info, F, XCC_ERRNO_SYS,
                               Append(log, Call("sigaction", info[i].signum,
                                                info[i].oldact.sa_handler, FALSE)))
  ELSE UnregisterLoopSkipEmpty(i + 1,
                               [ disp EXCEPT ![info[i].signum] = info[i].oldact ],
                               info, F, r,
                               Append(log, Call("sigaction", info[i].signum,
                                                info[i].oldact.sa_handler, TRUE)))

\* the restoration loop from entry i on; F holds the entries whose sigaction() fails
RECURSIVE UnregisterLoop(_, _, _, _, _, _)
UnregisterLoop(i, disp, info, F, r, log) ==
  IF i > Len(info)
  THEN [ ret |-> r, disp |-> disp, log |-> log ]
  ELSE IF i \in F
  THEN UnregisterLoop(i + 1, disp, info, F, XCC_ERRNO_SYS,
                      Append(log, Call("sigaction", info[i].signum,
                                       info[i].oldact.sa_handler, FALSE)))
  ELSE UnregisterLoop(i + 1, [ disp EXCEPT ![info[i].signum] = info[i].oldact ],
                      info, F, r,
                      Append(log, Call("sigaction", info[i].signum,
                                       info[i].oldact.sa_handler, TRUE)))

xcc_signal_crash_unregister(F) ==
  LET loop == UnregisterLoop(1, disposition, xcc_signal_crash_info, F, OK, << >>)
  IN /\ May(F # {})
     /\ UNCHANGED pending
     /\ disposition' = loop.disp
     /\ Record("crash_unregister", Controller, "-", F, loop.ret, loop.log, F # {})
     /\ UNCHANGED << sigmask, altstack, heap, xcc_signal_crash_info,
                     xcc_signal_trace_oldset, xcc_signal_trace_oldact >>

CrashUnregister == \E F \in FailChoices : xcc_signal_crash_unregister(F)

(***************************************************************************)
(* xcc_signal_crash_ignore                                                 *)
(***************************************************************************)
\* variant: the saved disposition is installed, not the default one
RECURSIVE IgnoreLoopSaved(_, _, _, _, _, _, _)
IgnoreLoopSaved(i, disp, info, act, F, r, log) ==
  IF i > Len(info)
  THEN [ ret |-> r, disp |-> disp, log |-> log ]
  ELSE IF i \in F
  THEN IgnoreLoopSaved(i + 1, disp, info, act, F, XCC_ERRNO_SYS,
                       Append(log, Call("sigaction", info[i].signum,
                                        info[i].oldact.sa_handler, FALSE)))
  ELSE IgnoreLoopSaved(i + 1, [ disp EXCEPT ![info[i].signum] = info[i].oldact ],
                       info, act, F, r,
                       Append(log, Call("sigaction", info[i].signum,
                                        info[i].oldact.sa_handler, TRUE)))

\* variant: the loop ends by setting SIGQUIT to the default disposition too
RECURSIVE IgnoreLoopWithQuit(_, _, _, _, _, _, _)
IgnoreLoopWithQuit(i, disp, info, act, F, r, log) ==
  IF i > Len(info)
  THEN [ ret |-> r, disp |-> [ disp EXCEPT ![SIGQUIT] = act ], log |-> log ]
  ELSE IF i \in F
  THEN IgnoreLoopWithQuit(i + 1, disp, info, act, F, XCC_ERRNO_SYS,
                          Append(log, Call("sigaction", info[i].signum,
                                           act.sa_handler, FALSE)))
  ELSE IgnoreLoopWithQuit(i + 1, [ disp EXCEPT ![info[i].signum] = act ], info, act,
                          F, r,
                          Append(log, Call("sigaction", info[i].signum,
                                           act.sa_handler, TRUE)))

\* the default-disposition loop from entry i on; F holds the entries whose
\* sigaction() fails
RECURSIVE IgnoreLoop(_, _, _, _, _, _, _)
IgnoreLoop(i, disp, info, act, F, r, log) ==
  IF i > Len(info)
  THEN [ ret |-> r, disp |-> disp, log |-> log ]
  ELSE IF i \in F
  THEN IgnoreLoop(i + 1, disp, info, act, F, XCC_ERRNO_SYS,
                  Append(log, Call("sigaction", info[i].signum, act.sa_handler, FALSE)))
  ELSE IgnoreLoop(i + 1, [ disp EXCEPT ![info[i].signum] = act ], info, act, F, r,
                  Append(log, Call("sigaction", info[i].signum, act.sa_handler, TRUE)))

xcc_signal_crash_ignore(F) ==
  LET loop == IgnoreLoop(1, disposition, xcc_signal_crash_info, IgnoreAct, F, OK, << >>)
  IN /\ May(F # {})
     /\ UNCHANGED pending
     /\ disposition' = loop.disp
     /\ Record("crash_ignore", Controller, "-", F, loop.ret, loop.log, F # {})
     /\ UNCHANGED << sigmask, altstack, heap, xcc_signal_crash_info,
                     xcc_signal_trace_oldset, xcc_signal_trace_oldact >>

CrashIgnore == \E F \in FailChoices : xcc_signal_crash_ignore(F)

(***************************************************************************)
(* xcc_signal_crash_queue                                                  *)
(***************************************************************************)
\* the siginfo_t values handed to xcc_signal_crash_queue()
SigInfos ==
  { [ si_signo |-> s, si_code |-> c ] : s \in { SIGABRT, SIGSEGV }, c \in SiCodes }

\* the condition under which the signal is queued again
ShouldQueue(si) == SIGABRT = si.si_signo \/ SI_FROMUSER(si)

\* the kernel takes signal s for queue q: a signal below SIGRTMIN that is
\* pending there already is not queued a second time
Post(q, s) == pending' = [ pending EXCEPT ![q] = @ \cup { s } ]

\* syscall(SYS_rt_tgsigqueueinfo, getpid(), gettid(), si->si_signo, si)
QueueCall(t, si, sysOK) ==
  [ fn |-> "rt_tgsigqueueinfo", tgid |-> Pid, tid |-> t,
    sig |-> si.si_signo, info |-> si, ok |-> sysOK ]

xcc_signal_crash_queue(t, si, sysOK) ==
  /\ May(~sysOK)
  /\ IF ShouldQueue(si)
     THEN /\ Record("crash_queue", t, si, sysOK, IF sysOK THEN OK ELSE XCC_ERRNO_SYS,
                    << QueueCall(t, si, sysOK) >>, ~sysOK)
          /\ IF sysOK THEN Post(t, si.si_signo) ELSE UNCHANGED pending
     ELSE /\ sysOK
          /\ Record("crash_queue", t, si, sysOK, OK, << >>, FALSE)
          /\ UNCHANGED pending
  /\ UNCHANGED progvars

CrashQueue ==
  \E t \in Threads, si \in SigInfos, sysOK \in BOOLEAN :
    xcc_signal_crash_queue(t, si, sysOK)

(***************************************************************************)
(* xcc_signal_trace_register                                               *)
(***************************************************************************)
\* pthread_sigmask(how, &set, ...) on a thread whose mask is cur: the new mask
pthread_sigmask(how, cur, set) ==
  CASE how = "SIG_UNBLOCK" -> cur \ set
    [] how = "SIG_BLOCK"   -> cur \cup set
    [] how = "SIG_SETMASK" -> set

SigmaskCall(how, set, ok) ==
  [ fn |-> "pthread_sigmask", how |-> how, set |-> set, ok |-> ok ]

\* variant: the failed-installation path does not set the saved mask back
TraceRegisterFailMaskKeep(cur, saved, restoreOK) == cur

\* the mask the failed-installation path leaves: the saved mask is set back,
\* unless that call fails too
TraceRegisterFailMask(cur, saved, restoreOK) ==
  IF restoreOK THEN pthread_sigmask("SIG_SETMASK", cur, saved) ELSE cur

\* maskErr: what pthread_sigmask(SIG_UNBLOCK) returns; actOK: sigaction() succeeds;
\* restoreOK: the pthread_sigmask(SIG_SETMASK) of the error path succeeds
xcc_signal_trace_register(t, handler, maskErr, actOK, restoreOK) ==
  LET in == [ maskErr |-> maskErr, actOK |-> actOK, restoreOK |-> restoreOK ]
      set == { SIGQUIT }
      oldset == sigmask[t]
      unblocked == pthread_sigmask("SIG_UNBLOCK", sigmask[t], set)
      log1 == << SigmaskCall("SIG_UNBLOCK", set, maskErr = OK) >>
      log2 == Append(log1, Call("sigaction", SIGQUIT, handler, actOK))
      log3 == Append(log2, SigmaskCall("SIG_SETMASK", oldset, restoreOK))
  IN
  /\ May(maskErr # OK \/ ~actOK)
  /\ UNCHANGED pending
  /\ IF maskErr # OK
     THEN /\ Record("trace_register", t, handler, in, maskErr, log1, TRUE)
          /\ UNCHANGED progvars
     ELSE IF ~actOK
     THEN /\ xcc_signal_trace_oldset' = oldset
          /\ sigmask' = [ sigmask EXCEPT ![t] =
                            TraceRegisterFailMask(unblocked, oldset, restoreOK) ]
          /\ Record("trace_register", t, handler, in, XCC_ERRNO_SYS, log3, TRUE)
          /\ UNCHANGED << disposition, altstack, heap, xcc_signal_crash_info,
                          xcc_signal_trace_oldact >>
     ELSE /\ xcc_signal_trace_oldset' = oldset
          /\ sigmask' = [ sigmask EXCEPT ![t] = unblocked ]
          /\ xcc_signal_trace_oldact' = disposition[SIGQUIT]
          /\ disposition' = [ disposition EXCEPT ![SIGQUIT] = TraceAct(handler) ]
          /\ Record("trace_register", t, handler, in, OK, log2, FALSE)
          /\ UNCHANGED << altstack, heap, xcc_signal_crash_info >>

TraceRegister ==
  \E t \in Threads, handler \in TraceHandlers :
    \/ \E e \in SigmaskErrors : xcc_signal_trace_register(t, handler, e, TRUE, TRUE)
    \/ \E restoreOK \in BOOLEAN : xcc_signal_trace_register(t, handler, OK, FALSE, restoreOK)
    \/ xcc_signal_trace_register(t, handler, OK, TRUE, TRUE)

(***************************************************************************)
(* xcc_signal_trace_unregister                                             *)
(***************************************************************************)
\* variant: the mask is not restored
TraceUnregisterMaskKeep(cur, saved, maskOK) == cur

\* the mask after pthread_sigmask(SIG_SETMASK, &xcc_signal_trace_oldset, NULL)
TraceUnregisterMask(cur, saved, maskOK) ==
  IF maskOK THEN pthread_sigmask("SIG_SETMASK", cur, saved) ELSE cur

\* the disposition after sigaction(SIGQUIT, &xcc_signal_trace_oldact, NULL)
TraceUnregisterAct(cur, saved, actOK) ==
  IF actOK THEN saved ELSE cur

\* variant: the disposition is restored first, the mask second
TraceUnregisterLogActFirst(oldset, oldact, maskOK, actOK) ==
  << Call("sigaction", SIGQUIT, oldact.sa_handler, actOK),
     SigmaskCall("SIG_SETMASK", oldset, maskOK) >>

\* the calls xcc_signal_trace_unregister() makes, in order; the result of
\* neither is looked at
TraceUnregisterLog(oldset, oldact, maskOK, actOK) ==
  << SigmaskCall("SIG_SETMASK", oldset, maskOK),
     Call("sigaction", SIGQUIT, oldact.sa_handler, actOK) >>

xcc_signal_trace_unregister(t, maskOK, actOK) ==
  /\ May(~(maskOK /\ actOK))
  /\ UNCHANGED pending
  /\ sigmask' = [ sigmask EXCEPT ![t] =
                    TraceUnregisterMask(sigmask[t], xcc_signal_trace_oldset, maskOK) ]
  /\ disposition' = [ disposition EXCEPT ![SIGQUIT] =
                        TraceUnregisterAct(disposition[SIGQUIT],
                                           xcc_signal_trace_oldact, actOK) ]
  /\ Record("trace_unregister", t, "-", [ maskOK |-> maskOK, actOK |-> actOK ], "void",
            TraceUnregisterLog(xcc_signal_trace_oldset, xcc_signal_trace_oldact,
                               maskOK, actOK),
            ~(maskOK /\ actOK))
  /\ UNCHANGED << altstack, heap, xcc_signal_crash_info,
                  xcc_signal_trace_oldset, xcc_signal_trace_oldact >>

TraceUnregister ==
  \E t \in Threads, maskOK \in BOOLEAN, actOK \in BOOLEAN :
    xcc_signal_trace_unregister(t, maskOK, actOK)

(***************************************************************************)
(* The system: the operations, called in any order.                        *)
(***************************************************************************)
Next ==
  \/ CrashRegister
  \/ CrashUnregister
  \/ CrashIgnore
  \/ CrashQueue
  \/ TraceRegister
  \/ TraceUnregister

Spec == Init /\ [][Next]_vars

(***************************************************************************)
(* The process at run time.  The kernel keeps, for each thread and for the *)
(* process, the set of pending signals; it delivers a pending signal to a  *)
(* thread that does not block it, by running the handler of the signal's   *)
(* disposition with the disposition's sa_mask and the signal itself added  *)
(* to the thread's mask, on the thread's alternate stack when the          *)
(* disposition has SA_ONSTACK and the thread has one, and it puts the mask *)
(* back when the handler returns.  Signals are sent once the set-up has    *)
(* begun; the primitives the operations call succeed.                      *)
(***************************************************************************)
historyvars == << lastOp, prevOp, pre, calls, nops, budget, faulted >>

\* thread t runs no handler
AtRest(t) == frames[t] = << >>

RECURSIVE Sum(_, _)
Sum(f, S) == IF S = {} THEN 0
             ELSE LET x == CHOOSE y \in S : TRUE IN f[x] + Sum(f, S \ { x })

\* kill() sends s to the process
Send(s) ==
  /\ alive
  /\ nops >= 1
  /\ Sum(sent, SendSignals) < MaxSends
  /\ Post(Process, s)
  /\ sent' = [ sent EXCEPT ![s] = @ + 1 ]
  /\ merged' = IF s \in pending[Process] THEN [ merged EXCEPT ![s] = @ + 1 ] ELSE merged
  /\ UNCHANGED << frames, alive, ran >>
  /\ UNCHANGED progvars
  /\ UNCHANGED historyvars

\* the queue a signal for thread t is taken from: the thread's own first
From(t, s) == IF s \in pending[t] THEN t ELSE Process

\* s is pending for t and t does not block it
Deliverable(t, s) ==
  /\ alive
  /\ s \in pending[t] \cup pending[Process]
  /\ s \notin sigmask[t]

\* the stack a handler for s runs on when started on t: the block
\* sigaltstack() installed for t, or 0, the stack t was running on
HandlerStack(t, s) ==
  IF SA_ONSTACK \in disposition[s].sa_flags THEN altstack[t] ELSE 0

\* the kernel starts the handler of s on thread t
Deliver(t, s) ==
  /\ Deliverable(t, s)
  /\ disposition[s].sa_handler # SIG_DFL
  /\ pending' = [ pending EXCEPT ![From(t, s)] = @ \ { s } ]
  /\ frames' = [ frames EXCEPT ![t] =
                   Append(@, [ sig |-> s, handler |-> disposition[s].sa_handler,
                               mask |-> sigmask[t], stack |-> HandlerStack(t, s) ]) ]
  /\ sigmask' = [ sigmask EXCEPT ![t] = @ \cup disposition[s].sa_mask \cup { s } ]
  /\ ran' = [ ran EXCEPT ![s] = @ + 1 ]
  /\ UNCHANGED << alive, sent, merged >>
  /\ UNCHANGED << disposition, altstack, heap, xcc_signal_crash_info,
                  xcc_signal_trace_oldset, xcc_signal_trace_oldact >>
  /\ UNCHANGED historyvars

\* a signal whose disposition is the default one terminates the process
DefaultAction(t, s) ==
  /\ Deliverable(t, s)
  /\ disposition[s].sa_handler = SIG_DFL
  /\ alive' = FALSE
  /\ UNCHANGED << pending, frames, sent, merged, ran >>
  /\ UNCHANGED progvars
  /\ UNCHANGED historyvars

\* the innermost handler of t returns: the mask from before it is back
Return(t) ==
  /\ alive
  /\ ~AtRest(t)
  /\ frames' = [ frames EXCEPT ![t] = SubSeq(@, 1, Len(@) - 1) ]
  /\ sigmask' = [ sigmask EXCEPT ![t] = frames[t][Len(frames[t])].mask ]
  /\ UNCHANGED << pending, alive, sent, merged, ran >>
  /\ UNCHANGED << disposition, altstack, heap, xcc_signal_crash_info,
                  xcc_signal_trace_oldset, xcc_signal_trace_oldact >>
  /\ UNCHANGED historyvars

\* the trace controller is set up and torn down by threads that run no handler
RunTraceRegister ==
  \E t \in Threads, handler \in TraceHandlers :
    AtRest(t) /\ xcc_signal_trace_register(t, handler, OK, TRUE, TRUE)

RunTraceUnregister ==
  \E t \in Threads : AtRest(t) /\ xcc_signal_trace_unregister(t, TRUE, TRUE)

\* a crash handler hands the signal it was started for, sent with kill(), to
\* xcc_signal_crash_queue()
RunQueue ==
  \E t \in Threads :
    /\ ~AtRest(t)
    /\ frames[t][Len(frames[t])].handler \in Handlers
    /\ xcc_signal_crash_queue(t, [ si_signo |-> frames[t][Len(frames[t])].sig,
                                   si_code |-> SI_USER ], TRUE)

\* SpecRun starts in a process where another component handles every
\* signal and SIGQUIT is blocked in every thread
RunStart == << MonitoredSet \cup { SIGQUIT }, { SIGQUIT, SIGUSR1 } >>

InitRun ==
  /\ KernelInit
  /\ Start(RunStart)
  /\ budget = MaxRunOps
  /\ faulted = TRUE

NextRun ==
  \/ CrashRegister
  \/ CrashUnregister
  \/ CrashIgnore
  \/ RunQueue
  \/ RunTraceRegister
  \/ RunTraceUnregister
  \/ \E s \in SendSignals : Send(s)
  \/ \E t \in Threads, s \in SendSignals : Deliver(t, s)
  \/ \E t \in Threads, s \in SendSignals : DefaultAction(t, s)
  \/ \E t \in Threads : Return(t)

SpecRun == InitRun /\ [][NextRun]_vars

(***************************************************************************)
(* The trace controller, used by threads that also change their own masks. *)
(***************************************************************************)
\* a thread blocks or unblocks SIGUSR1 for itself
ThreadSigmask(t, how) ==
  /\ May(FALSE)
  /\ sigmask' = [ sigmask EXCEPT ![t] = pthread_sigmask(how, @, { SIGUSR1 }) ]
  /\ Record("thread_sigmask", t, how, "-", OK,
            << SigmaskCall(how, { SIGUSR1 }, TRUE) >>, FALSE)
  /\ UNCHANGED pending
  /\ UNCHANGED << disposition, altstack, heap, xcc_signal_crash_info,
                  xcc_signal_trace_oldset, xcc_signal_trace_oldact >>

NextTrace ==
  \/ TraceRegister
  \/ TraceUnregister
  \/ \E t \in Threads, how \in { "SIG_BLOCK", "SIG_UNBLOCK" } : ThreadSigmask(t, how)

SpecTrace == Init /\ [][NextTrace]_vars

(***************************************************************************)
(* Properties.                                                             *)
(***************************************************************************)
N == Len(CrashSignals)
Sig(i) == CrashSignals[i]

\* the sigaction() calls of the last operation, in order
SigactionCalls == SelectSeq(calls, LAMBDA c : c.fn = "sigaction")

\* C1: round trip of the crash controller.  When register(h) has succeeded
\* and the unregister() that follows it succeeds, each monitored signal has,
\* signal by signal, the disposition it had just before register(h).
C1_RegisterUnregisterRoundTrip ==
  [][ ( /\ lastOp.op = "crash_register" /\ lastOp.ret = OK
        /\ lastOp'.op = "crash_unregister" /\ lastOp'.ret = OK )
      => \A s \in MonitoredSet : disposition'[s] = pre.disposition[s] ]_vars

\* a round trip was made from dispositions that differ from signal to signal
C1_Witness ==
  /\ lastOp.op = "crash_unregister" /\ lastOp.ret = OK
  /\ prevOp.op = "crash_register" /\ prevOp.ret = OK
  /\ disposition[SIGSEGV] = PresetAct(SIGSEGV)
  /\ disposition[SIGABRT] = ZeroAct

\* C2: a failing calloc() makes register return XCC_ERRNO_NOMEM, a failing
\* sigaltstack() XCC_ERRNO_SYS; in both cases no sigaction() is attempted and
\* no monitored disposition and no Disposition Record changes.
C2_EarlyFailuresContained ==
  ( lastOp.op = "crash_register" /\ (~lastOp.in.callocOK \/ ~lastOp.in.altOK) ) =>
    /\ lastOp.ret = IF ~lastOp.in.callocOK THEN XCC_ERRNO_NOMEM ELSE XCC_ERRNO_SYS
    /\ SigactionCalls = << >>
    /\ \A s \in MonitoredSet : disposition[s] = pre.disposition[s]
    /\ xcc_signal_crash_info = pre.info

\* sigaltstack() failed after an earlier registration had succeeded
C2_Witness ==
  /\ lastOp.op = "crash_register" /\ lastOp.in.callocOK /\ ~lastOp.in.altOK
  /\ prevOp.op = "crash_register" /\ prevOp.ret = OK
  /\ lastOp.arg # disposition[SIGABRT].sa_handler

\* C3 as claimed: after a register that failed, an unregister() whose
\* restorations all succeed leaves each monitored signal with the
\* disposition it had just before that register call.
C3_RestoreAfterFailedRegister ==
  [][ ( /\ lastOp.op = "crash_register" /\ lastOp.ret # OK
        /\ lastOp'.op = "crash_unregister" /\ lastOp'.ret = OK )
      => \A s \in MonitoredSet : disposition'[s] = pre.disposition[s] ]_vars

\* C4: register(h) returns 0 exactly when the alternate stack was allocated
\* and installed and h was installed for each of the eight monitored signals;
\* then each monitored disposition is h with SA_RESTART | SA_SIGINFO |
\* SA_ONSTACK and a mask of all signals.
C4_RegisterSuccess ==
  lastOp.op = "crash_register" =>
    LET h == lastOp.arg
        allocated == /\ Len(calls) >= 1 /\ calls[1].fn = "calloc" /\ calls[1].ok
                     /\ heap = pre.heap + 1
        installed == /\ Len(calls) >= 2 /\ calls[2].fn = "sigaltstack" /\ calls[2].ok
                     /\ altstack[lastOp.t] = heap
        everySignal == \A s \in MonitoredSet :
                         \E k \in 1..Len(calls) : calls[k] = Call("sigaction", s, h, TRUE)
    IN /\ (lastOp.ret = OK) <=> (allocated /\ installed /\ everySignal)
       /\ lastOp.ret = OK =>
            \A s \in MonitoredSet :
              disposition[s] = [ sa_handler |-> h, sa_mask |-> AllSignals,
                                 sa_flags |-> { SA_RESTART, SA_SIGINFO, SA_ONSTACK } ]

\* a registration succeeded over dispositions of another component
C4_Witness ==
  /\ lastOp.op = "crash_register" /\ lastOp.ret = OK
  /\ pre.disposition[SIGSEGV] = PresetAct(SIGSEGV)
  /\ altstack[Controller] = 1

\* C5: when the sigaction() of the k-th table entry fails, register returns
\* XCC_ERRNO_SYS at once (that call is its last), the entries before k keep
\* the new handler, and entry k and those after it keep their dispositions
\* and their Disposition Records.
C5_PartialRegistration ==
  ( /\ lastOp.op = "crash_register" /\ lastOp.in.callocOK /\ lastOp.in.altOK
    /\ lastOp.in.failAt # 0 ) =>
    LET k == lastOp.in.failAt
    IN /\ lastOp.ret = XCC_ERRNO_SYS
       /\ Len(SigactionCalls) = k
       /\ SigactionCalls[k] = Call("sigaction", Sig(k), lastOp.arg, FALSE)
       /\ \A i \in 1..(k - 1) :
            /\ disposition[Sig(i)].sa_handler = lastOp.arg
            /\ SigactionCalls[i] = Call("sigaction", Sig(i), lastOp.arg, TRUE)
       /\ \A i \in k..N :
            /\ disposition[Sig(i)] = pre.disposition[Sig(i)]
            /\ xcc_signal_crash_info[i] = pre.info[i]

\* the registration failed at SIGSEGV, the fifth entry, which keeps the
\* disposition another component gave it
C5_Witness ==
  /\ lastOp.op = "crash_register" /\ lastOp.in.failAt = 5
  /\ disposition[SIGSEGV] = PresetAct(SIGSEGV)
  /\ disposition[SIGILL].sa_handler = lastOp.arg

\* C6: unregister() calls sigaction() for each of the eight entries, in table
\* order, whatever the earlier calls returned; each call that succeeds
\* installs the saved disposition and stays in effect, each call that fails
\* changes nothing; the return value is 0 exactly when all eight succeeded,
\* and XCC_ERRNO_SYS otherwise.
C6_UnregisterAttemptsAll ==
  lastOp.op = "crash_unregister" =>
    /\ Len(calls) = N
    /\ \A i \in 1..N : calls[i].fn = "sigaction" /\ calls[i].sig = Sig(i)
    /\ (lastOp.ret = OK) <=> (\A i \in 1..N : calls[i].ok)
    /\ lastOp.ret \in { OK, XCC_ERRNO_SYS }
    /\ \A i \in 1..N :
         disposition[Sig(i)] =
           IF calls[i].ok THEN pre.info[i].oldact ELSE pre.disposition[Sig(i)]

\* after a registration, the restorations of two inner entries failed
C6_Witness ==
  /\ lastOp.op = "crash_unregister" /\ lastOp.in = { 3, 6 }
  /\ prevOp.op = "crash_register" /\ prevOp.ret = OK
  /\ disposition[Sig(3)].sa_handler \in Handlers
  /\ disposition[Sig(8)].sa_handler \notin Handlers

\* what one xcc_signal_crash_ignore() does
IgnoreEffect ==
  lastOp.op = "crash_ignore" =>
    /\ Len(calls) = N
    /\ \A i \in 1..N : calls[i].fn = "sigaction" /\ calls[i].sig = Sig(i)
                       /\ calls[i].arg = SIG_DFL
    /\ (lastOp.ret = OK) <=> (\A i \in 1..N : calls[i].ok)
    /\ lastOp.ret \in { OK, XCC_ERRNO_SYS }
    /\ \A i \in 1..N :
         IF calls[i].ok
         THEN disposition[Sig(i)].sa_handler = SIG_DFL
         ELSE disposition[Sig(i)] = pre.disposition[Sig(i)]
    /\ xcc_signal_crash_info = pre.info

\* C7: ignore() sets each monitored signal to SIG_DFL, not to the saved
\* disposition, whatever was installed or saved; it attempts all eight,
\* returns 0 exactly when all eight succeeded, and leaves the Disposition
\* Records as they were, so that an unregister() after it installs what the
\* records held before ignore().
C7_IgnoreForcesDefault ==
  [][ /\ IgnoreEffect'
      /\ ( lastOp.op = "crash_ignore" /\ lastOp'.op = "crash_unregister" ) =>
           \A i \in 1..N :
             calls'[i].ok => disposition'[Sig(i)] = pre.info[i].oldact ]_vars

\* register, ignore, unregister: the disposition another component had
\* installed for SIGSEGV is back
C7_Witness ==
  /\ lastOp.op = "crash_unregister" /\ lastOp.ret = OK
  /\ prevOp.op = "crash_ignore" /\ prevOp.ret = OK
  /\ pre.disposition[SIGSEGV] = IgnoreAct
  /\ pre.info[5].oldact = PresetAct(SIGSEGV)
  /\ disposition[SIGSEGV] = PresetAct(SIGSEGV)

\* C8: queue(si) makes exactly one rt_tgsigqueueinfo call, for this process,
\* the calling thread, si's signal number and si itself, when the signal is
\* SIGABRT or was sent by a user, and makes no call otherwise; it returns
\* XCC_ERRNO_SYS exactly when a call was made and failed, and 0 otherwise.
C8_SelectiveRequeue ==
  lastOp.op = "crash_queue" =>
    LET si == lastOp.arg
        userSent == si.si_code \in { SI_USER, SI_TKILL }
        wanted == si.si_signo = SIGABRT \/ userSent
    IN /\ wanted =>
            /\ Len(calls) = 1
            /\ calls[1].fn = "rt_tgsigqueueinfo"
            /\ calls[1].tgid = Pid /\ calls[1].tid = lastOp.t
            /\ calls[1].sig = si.si_signo /\ calls[1].info = si
       /\ ~wanted => calls = << >>
       /\ (lastOp.ret = XCC_ERRNO_SYS) <=> (Len(calls) = 1 /\ ~calls[1].ok)
       /\ lastOp.ret \in { OK, XCC_ERRNO_SYS }
       /\ State = pre

\* a SIGSEGV sent with kill() was queued again, from the worker thread
C8_Witness ==
  /\ lastOp.op = "crash_queue" /\ lastOp.t = "worker"
  /\ lastOp.arg = [ si_signo |-> SIGSEGV, si_code |-> SI_USER ]
  /\ Len(calls) = 1 /\ calls[1].ok

\* C9: trace round trip.  After a successful trace_register(h),
\* trace_unregister() on the same thread issues both restorations, of the
\* mask and of the SIGQUIT disposition, each with the value from just before
\* trace_register; each one that succeeds puts that value back, so both
\* are back when both succeed.
C9_TraceRoundTrip ==
  [][ ( /\ lastOp.op = "trace_register" /\ lastOp.ret = OK
        /\ lastOp'.op = "trace_unregister" /\ lastOp'.t = lastOp.t )
      => LET t == lastOp.t
         IN /\ Len(calls') = 2
            /\ calls'[1] = [ fn |-> "pthread_sigmask", how |-> "SIG_SETMASK",
                             set |-> pre.sigmask[t], ok |-> lastOp'.in.maskOK ]
            /\ calls'[2] = Call("sigaction", SIGQUIT,
                                pre.disposition[SIGQUIT].sa_handler, lastOp'.in.actOK)
            /\ lastOp'.in.maskOK => sigmask'[t] = pre.sigmask[t]
            /\ lastOp'.in.actOK => disposition'[SIGQUIT] = pre.disposition[SIGQUIT] ]_vars

\* a round trip on one thread put back a mask that blocks SIGQUIT and a
\* SIGQUIT disposition of another component
C9_Witness ==
  /\ lastOp.op = "trace_unregister" /\ lastOp.in.maskOK /\ lastOp.in.actOK
  /\ prevOp.op = "trace_register" /\ prevOp.ret = OK /\ prevOp.t = lastOp.t
  /\ SIGQUIT \notin pre.sigmask[lastOp.t]
  /\ pre.disposition[SIGQUIT] \in { TraceAct(h) : h \in TraceHandlers }
  /\ SIGQUIT \in sigmask[lastOp.t]
  /\ disposition[SIGQUIT] = PresetAct(SIGQUIT)

\* C10: when sigaction(SIGQUIT) fails after the unblocking succeeded,
\* trace_register returns XCC_ERRNO_SYS, the SIGQUIT disposition is
\* unchanged, and its last call sets the mask saved on entry back; when that
\* call succeeds every thread's mask is what it was before the call.
C10_TraceRegisterFailureRestoresMask ==
  ( lastOp.op = "trace_register" /\ lastOp.in.maskErr = OK /\ ~lastOp.in.actOK ) =>
    /\ lastOp.ret = XCC_ERRNO_SYS
    /\ disposition = pre.disposition
    /\ Len(calls) = 3
    /\ calls[1].fn = "pthread_sigmask" /\ calls[1].how = "SIG_UNBLOCK" /\ calls[1].ok
    /\ calls[2] = Call("sigaction", SIGQUIT, lastOp.arg, FALSE)
    /\ calls[3] = [ fn |-> "pthread_sigmask", how |-> "SIG_SETMASK",
                    set |-> pre.sigmask[lastOp.t], ok |-> lastOp.in.restoreOK ]
    /\ lastOp.in.restoreOK => sigmask = pre.sigmask

\* the installation failed on a thread that had SIGQUIT blocked, and SIGQUIT
\* is blocked again
C10_Witness ==
  /\ lastOp.op = "trace_register" /\ lastOp.in.maskErr = OK /\ ~lastOp.in.actOK
  /\ lastOp.in.restoreOK
  /\ SIGQUIT \in pre.sigmask[lastOp.t]
  /\ SIGQUIT \in sigmask[lastOp.t]

\* the operations that return a status
StatusOps ==
  { "crash_register", "crash_unregister", "crash_ignore", "crash_queue",
    "trace_register" }

\* C11 as claimed: every status an operation returns is 0, XCC_ERRNO_NOMEM or
\* XCC_ERRNO_SYS, and an operation one of whose OS calls failed returns
\* XCC_ERRNO_SYS (XCC_ERRNO_NOMEM when the call is calloc()), the
\* pthread_sigmask() of trace_register included.
C11_ClosedTaxonomy ==
  lastOp.op \in StatusOps =>
    /\ lastOp.ret \in { OK, XCC_ERRNO_NOMEM, XCC_ERRNO_SYS }
    /\ \A k \in 1..Len(calls) :
         ~calls[k].ok =>
           lastOp.ret = IF calls[k].fn = "calloc" THEN XCC_ERRNO_NOMEM ELSE XCC_ERRNO_SYS

\* C15: the controllers share no state.  trace_register and
\* trace_unregister change no monitored disposition, no Disposition Record
\* and no alternate stack; register, unregister, ignore and queue change
\* neither the SIGQUIT disposition nor any thread's mask nor the saved trace
\* state.
C15_ControllersIndependent ==
  /\ lastOp.op \in { "trace_register", "trace_unregister" } =>
       /\ \A s \in MonitoredSet : disposition[s] = pre.disposition[s]
       /\ xcc_signal_crash_info = pre.info
       /\ altstack = pre.altstack
       /\ heap = pre.heap
  /\ lastOp.op \in { "crash_register", "crash_unregister", "crash_ignore",
                     "crash_queue" } =>
       /\ disposition[SIGQUIT] = pre.disposition[SIGQUIT]
       /\ sigmask = pre.sigmask
       /\ xcc_signal_trace_oldset = pre.oldset
       /\ xcc_signal_trace_oldact = pre.oldact

\* with both controllers registered, an ignore() left the trace handler, the
\* saved trace state and the masks as they were
C15_Witness ==
  /\ lastOp.op = "crash_ignore" /\ lastOp.ret = OK
  /\ prevOp.op = "trace_register" /\ prevOp.ret = OK
  /\ disposition[SIGQUIT].sa_handler \in TraceHandlers
  /\ xcc_signal_trace_oldact = PresetAct(SIGQUIT)
  /\ xcc_signal_trace_oldset = { SIGQUIT, SIGUSR1 }
  /\ disposition[SIGABRT] = IgnoreAct

\* C16: trace_unregister() makes two calls, the pthread_sigmask(SIG_SETMASK)
\* with the saved mask first and the sigaction(SIGQUIT) with the saved
\* disposition second; the second is made, and takes effect when it
\* succeeds, also when the first failed; no status is returned.
C16_TraceUnregisterOrder ==
  lastOp.op = "trace_unregister" =>
    /\ Len(calls) = 2
    /\ calls[1] = [ fn |-> "pthread_sigmask", how |-> "SIG_SETMASK",
                    set |-> pre.oldset, ok |-> lastOp.in.maskOK ]
    /\ calls[2] = Call("sigaction", SIGQUIT, pre.oldact.sa_handler, lastOp.in.actOK)
    /\ lastOp.in.actOK => disposition[SIGQUIT] = pre.oldact
    /\ ~lastOp.in.maskOK => sigmask = pre.sigmask
    /\ lastOp.ret = "void"

\* the mask restoration failed after a registration, and the SIGQUIT
\* disposition of another component is back all the same
C16_Witness ==
  /\ lastOp.op = "trace_unregister" /\ ~lastOp.in.maskOK /\ lastOp.in.actOK
  /\ prevOp.op = "trace_register" /\ prevOp.ret = OK
  /\ pre.disposition[SIGQUIT].sa_handler \in TraceHandlers
  /\ disposition[SIGQUIT] = PresetAct(SIGQUIT)
  /\ SIGQUIT \notin sigmask[lastOp.t]

\* the state right after a second successful register in a row
SecondRegister ==
  /\ lastOp.op = "crash_register" /\ lastOp.ret = OK
  /\ prevOp.op = "crash_register" /\ prevOp.ret = OK

\* C18: when two register calls in a row have succeeded, every Disposition
\* Record holds the disposition the first call installed, not the one from
\* before it; the second call allocated a block of its own and installed it,
\* and the block of the first call is still allocated; an unregister() that
\* follows leaves each monitored signal it restores with the first call's
\* handler.
C18_SecondRegisterOverwrites ==
  [][ /\ SecondRegister' =>
           /\ \A i \in 1..N :
                /\ xcc_signal_crash_info'[i].oldact = pre'.disposition[Sig(i)]
                /\ xcc_signal_crash_info'[i].oldact.sa_handler \in Handlers
                /\ xcc_signal_crash_info'[i].oldact.sa_flags =
                     { SA_RESTART, SA_SIGINFO, SA_ONSTACK }
           /\ heap' = pre'.heap + 1
           /\ altstack'[lastOp'.t] = heap'
           /\ pre'.altstack[lastOp'.t] = pre'.heap
      /\ ( SecondRegister /\ lastOp'.op = "crash_unregister" ) =>
           \A i \in 1..N :
             calls'[i].ok =>
               /\ disposition'[Sig(i)] = pre.disposition[Sig(i)]
               /\ disposition'[Sig(i)].sa_handler \in Handlers ]_vars

\* register(h1), register(h2), unregister(): SIGSEGV, which another
\* component handled at first, is left with h1
C18_Witness ==
  /\ nops = 3
  /\ lastOp.op = "crash_unregister" /\ lastOp.ret = OK
  /\ prevOp.op = "crash_register" /\ prevOp.ret = OK
  /\ disposition[SIGSEGV] = CrashAct("h1")
  /\ pre.disposition[SIGSEGV] = CrashAct("h2")
  /\ heap = 2 /\ altstack[Controller] = 2

\* C19: teardown as the first operation of a run works from the
\* zero-initialised saved state.  unregister() sets every monitored signal
\* whose sigaction() succeeds to SIG_DFL with an empty mask and no flag,
\* whatever it was; trace_unregister() sets the calling thread's mask to the
\* empty set and the SIGQUIT disposition to the same default, each when its
\* call succeeds.
C19_TeardownBeforeSetup ==
  /\ ( nops = 1 /\ lastOp.op = "crash_unregister" ) =>
       /\ Len(calls) = N
       /\ \A i \in 1..N :
            calls[i].ok =>
              disposition[Sig(i)] = [ sa_handler |-> SIG_DFL, sa_mask |-> {},
                                      sa_flags |-> {} ]
  /\ ( nops = 1 /\ lastOp.op = "trace_unregister" ) =>
       /\ lastOp.in.maskOK => sigmask[lastOp.t] = {}
       /\ lastOp.in.actOK =>
            disposition[SIGQUIT] = [ sa_handler |-> SIG_DFL, sa_mask |-> {},
                                     sa_flags |-> {} ]

\* unregister() as the first operation took the handlers of another
\* component away
C19_Witness ==
  /\ nops = 1 /\ lastOp.op = "crash_unregister" /\ lastOp.ret = OK
  /\ pre.disposition[SIGSEGV] = PresetAct(SIGSEGV)
  /\ disposition[SIGSEGV].sa_handler = SIG_DFL

\* the only operation so far is a register that succeeded
Covered == nops = 1 /\ lastOp.op = "crash_register" /\ lastOp.ret = OK

\* the queues in which s is pending
PendingCount(s) == Cardinality({ q \in Queues : s \in pending[q] })

\* every handler in flight for a monitored signal is the registered one and
\* was started for a signal that was sent
RegisteredHandlerRuns ==
  \A t \in Threads : \A i \in 1..Len(frames[t]) :
    frames[t][i].sig \in MonitoredSet =>
      /\ frames[t][i].handler = lastOp.arg
      /\ sent[frames[t][i].sig] >= 1

\* C12 as claimed: after a successful register(h) and no other operation,
\* each monitored signal has started h once for each time it was sent, apart
\* from the sends still pending, and h was started for the signal sent.
C12_OncePerSend ==
  Covered =>
    /\ \A s \in SendSignals \cap MonitoredSet : ran[s] + PendingCount(s) = sent[s]
    /\ RegisteredHandlerRuns

\* C12 as amended: the same, for the sends that did not find the signal
\* pending already; a send that did is merged with the pending one.
C12_OncePerUnmergedSend ==
  Covered =>
    /\ \A s \in SendSignals \cap MonitoredSet :
         ran[s] + PendingCount(s) = sent[s] - merged[s]
    /\ RegisteredHandlerRuns

\* the first and the last signal of the table were sent once each and each
\* started the registered handler, one of them on the worker thread
C12_Witness ==
  /\ Covered
  /\ sent[SIGABRT] = 1 /\ ran[SIGABRT] = 1
  /\ sent[SIGSTKFLT] = 1 /\ ran[SIGSTKFLT] = 1
  /\ Len(frames["worker"]) = 1
  /\ frames["worker"][1].sig = SIGSTKFLT
  /\ frames["worker"][1].handler = lastOp.arg

\* the handlers the two controllers install
ControllerHandlers == Handlers \cup TraceHandlers

\* C13: a crash handler or trace handler in flight on a thread is the
\* innermost invocation of that thread, nothing was started on top of it, and
\* while it runs the thread blocks every signal; so no thread has two such
\* invocations in flight.
C13_NoReentry ==
  \A t \in Threads :
    /\ \A i \in 1..Len(frames[t]) :
         frames[t][i].handler \in ControllerHandlers =>
           /\ i = Len(frames[t])
           /\ sigmask[t] = AllSignals
    /\ Cardinality({ i \in 1..Len(frames[t]) :
                       frames[t][i].handler \in ControllerHandlers }) <= 1

\* both threads run the crash handler at the same time, and the SIGABRT the
\* main thread's handler queued again waits until that handler returns
C13_Witness ==
  /\ \A t \in Threads :
       /\ Len(frames[t]) >= 1
       /\ frames[t][Len(frames[t])].handler \in Handlers
  /\ SIGABRT \in pending["main"]
  /\ SIGABRT \in sigmask["main"]

\* thread t made the last successful trace_register, and since then at most
\* changed its own mask once
RegisteredBy(t) ==
  \/ lastOp.op = "trace_register" /\ lastOp.ret = OK /\ lastOp.t = t
  \/ /\ lastOp.op = "thread_sigmask" /\ lastOp.t = t
     /\ prevOp.op = "trace_register" /\ prevOp.ret = OK /\ prevOp.t = t

\* C14 as claimed: trace_register, and a trace_unregister by the thread that
\* registered, leave the blocked state of every signal other than SIGQUIT as
\* it was just before the call, also when the thread changed its mask in
\* between; after a successful trace_register SIGQUIT is not blocked.
C14_TraceTouchesOnlySigquit ==
  [][ LET t == lastOp'.t
          othersKept == \A s \in AllSignals \ { SIGQUIT } :
                          (s \in sigmask'[t]) <=> (s \in sigmask[t])
      IN /\ ( nops' = nops + 1 /\ lastOp'.op = "trace_register" ) =>
              /\ othersKept
              /\ lastOp'.ret = OK => SIGQUIT \notin sigmask'[t]
         /\ ( nops' = nops + 1 /\ lastOp'.op = "trace_unregister" /\ RegisteredBy(t) ) =>
              othersKept ]_vars

\* the operations after which C17 says the alternate stack stays
StackKeepingOps ==
  { "crash_unregister", "crash_ignore", "crash_queue", "trace_register",
    "trace_unregister" }

====
